---- MODULE Spec2Model ----
(***************************************************************************)
(* Model of bevy_scene_test (src/src/main.rs): the hierarchy walk and the  *)
(* scene extraction of serialize_world_system, the Prefab codec            *)
(* (PrefabSerializer, PrefabDeserializer, PrefabVisitor) and the asset     *)
(* loader PrefabLoader.                                                    *)
(***************************************************************************)
EXTENDS Integers, Sequences, FiniteSets, TLC

(* ---------------------------------------------------------------- bounds *)

\* Number of entities of the world the walk runs on.
MaxNodes == 4

Nodes == 1..MaxNodes

\* "No entity": the parent of a node that has no Parent component.
NoNode == 0

(* ------------------------------------------------------------- the world *)

VARIABLES
    parentOf,           \* Parent component: node -> its parent, NoNode when absent
    leaf,               \* the nodes that carry the LeafNode marker component
    root,               \* the SceneToSave resource
    pc,                 \* position inside serialize_world_system
    entities,           \* Vec<Entity>: the nodes extracted with their Children
    leaf_nodes,         \* Vec<Entity>: the nodes extracted without Children
    entities_to_check,  \* Vec<Entity>: the worklist of the walk
    visits,             \* history: how many nodes the loop has popped
    deny,               \* the scene builder's component filter (a deny list)
    extracted_scene,    \* the scene builder's map: node -> set of records
    serialized_prefab   \* the text that is logged (a sequence of <= 1)

walkVars == <<parentOf, leaf, root, pc, entities, leaf_nodes,
              entities_to_check, visits, deny, extracted_scene,
              serialized_prefab>>

VARIABLES
    registered,   \* the types the type registry (an RwLock) holds
    readers,      \* the read guards of the registry that are held
    cpc,          \* position of the codec operation under way
    prefab,       \* encode: the Prefab being serialized (a sequence of <= 1)
    doc,          \* the document written by encode or read by decode
    next_rec,     \* the index of the next record whose type is looked up
    first_seen,   \* history: the registry at the operation's first lookup
    last_seen,    \* history: the registry at the operation's latest lookup
    result,       \* the Result the operation returned (a sequence of <= 1)
    load_path,    \* load: load_context.path()
    attempts,     \* load: history, how often the deserializer was run
    assets        \* load: what set_default_asset was called with

codecVars == <<registered, readers, cpc, prefab, doc, next_rec, first_seen,
               last_seen, result, load_path, attempts, assets>>

Range(s) == {s[i] : i \in 1..Len(s)}

RECURSIVE SortedSeq(_)
\* The elements of a finite set of integers, in increasing order.
SortedSeq(S) ==
    IF S = {} THEN <<>>
    ELSE LET m == CHOOSE x \in S : \A y \in S : x <= y
         IN <<m>> \o SortedSeq(S \ {m})

RECURSIVE AncestorsOf(_, _)
\* The proper ancestors of n under the parent map p.
AncestorsOf(p, n) ==
    IF p[n] = NoNode THEN {} ELSE {p[n]} \cup AncestorsOf(p, p[n])

RECURSIVE Depth(_, _, _)
Depth(p, n, fuel) ==
    IF p[n] = NoNode THEN 0
    ELSE IF fuel = 0 THEN MaxNodes + 1
    ELSE 1 + Depth(p, p[n], fuel - 1)

\* The worlds the hierarchy commands build: every node has at most one parent
\* and following parents ends at the single top node.
IsTree(p) ==
    /\ Cardinality({n \in Nodes : p[n] = NoNode}) = 1
    /\ \A n \in Nodes : Depth(p, n, MaxNodes) <= MaxNodes

\* Children component of n: the nodes whose Parent is n (an empty sequence
\* stands for "no Children component").
children(n) == SortedSeq({m \in Nodes : parentOf[m] = n})

\* The component types of the program.
Types == {"Transform", "GlobalTransform", "Children", "Parent",
          "TestComponent", "LeafNode"}

\* The types of the app's type registry: those the default plugins register.
\* main registers none of its own (TestComponent, PrefabMarker, LeafNode).
AppRegistered == {"Transform", "GlobalTransform", "Children", "Parent"}

\* The nodes that carry a TestComponent: all but the entity spawned last.
named == {n \in Nodes : n < MaxNodes}

Rec(t, refs) == [type |-> t, refs |-> refs]

\* The components attached to node n in the live world.
records_of(n) ==
    {Rec("Transform", {}), Rec("GlobalTransform", {})}
    \cup (IF n \in named THEN {Rec("TestComponent", {})} ELSE {})
    \cup (IF n \in leaf THEN {Rec("LeafNode", {})} ELSE {})
    \cup (IF children(n) # <<>> THEN {Rec("Children", Range(children(n)))} ELSE {})
    \cup (IF parentOf[n] # NoNode THEN {Rec("Parent", {parentOf[n]})} ELSE {})

\* is_leaf_node.contains(entity)
is_leaf_node(n) == n \in leaf

(* ------------------------------------------------ serialize_world_system *)

\* The empty builder map.
EmptyScene == [n \in {} |-> {}]

WalkInit ==
    /\ parentOf \in {p \in [Nodes -> Nodes \cup {NoNode}] : IsTree(p)}
    /\ leaf \in SUBSET Nodes
    /\ root \in Nodes
    /\ pc = "start"
    /\ entities = <<>>
    /\ leaf_nodes = <<>>
    /\ entities_to_check = <<>>
    /\ visits = 0
    /\ deny = {}
    /\ extracted_scene = EmptyScene
    /\ serialized_prefab = <<>>

\* Mutant of InitialEntities: the root is classified by the leaf predicate
\* like every other node.
InitialEntitiesByPredicate == IF is_leaf_node(root) THEN <<>> ELSE <<root>>

\* let mut entities = vec![entity_to_save];
InitialEntities == <<root>>

\* let mut entities = vec![entity_to_save]; ... entities_to_check = children of
\* the root, or an empty Vec when the root has no Children.
WalkStart ==
    /\ pc = "start"
    /\ entities' = InitialEntities
    /\ leaf_nodes' = <<>>
    /\ entities_to_check' = children(root)
    /\ pc' = "loop"
    /\ UNCHANGED <<parentOf, leaf, root, visits, deny, extracted_scene,
                   serialized_prefab>>
    /\ UNCHANGED codecVars

\* The entity the loop pops: the last of the worklist.
PopEntity(work) == work[Len(work)]

\* Mutant of PopRest: the popped entity stays on the worklist.
PopRestKeeps(work) == work

\* The worklist after the pop.
PopRest(work) == SubSeq(work, 1, Len(work) - 1)

\* Mutant of NextWork: the children of a leaf are pushed as well.
NextWorkDescends(rest, entity) == rest \o children(entity)

\* The worklist after the popped entity has been classified: only a node
\* that is not a leaf has its children pushed (none when it has no Children).
NextWork(rest, entity) ==
    IF is_leaf_node(entity) THEN rest ELSE rest \o children(entity)

\* The loop pops each node of a tree at most once; the model stops a run
\* that pops more often than that, so that a walk that fails to make
\* progress is a run that never leaves the loop.
VisitCap == MaxNodes + 1

\* One iteration of while let Some(entity) = entities_to_check.pop().
WalkStep ==
    /\ pc = "loop"
    /\ entities_to_check # <<>>
    /\ visits < VisitCap
    /\ LET entity == PopEntity(entities_to_check)
       IN IF is_leaf_node(entity)
          THEN /\ leaf_nodes' = Append(leaf_nodes, entity)
               /\ UNCHANGED entities
          ELSE /\ entities' = Append(entities, entity)
               /\ UNCHANGED leaf_nodes
    /\ entities_to_check' =
           NextWork(PopRest(entities_to_check), PopEntity(entities_to_check))
    /\ visits' = visits + 1
    /\ UNCHANGED <<parentOf, leaf, root, pc, deny, extracted_scene,
                   serialized_prefab>>
    /\ UNCHANGED codecVars

\* The loop ends when pop() returns None.
WalkEnd ==
    /\ pc = "loop"
    /\ entities_to_check = <<>>
    /\ pc' = "extract_entities"
    /\ UNCHANGED <<parentOf, leaf, root, entities, leaf_nodes,
                   entities_to_check, visits, deny, extracted_scene,
                   serialized_prefab>>
    /\ UNCHANGED codecVars

\* What extract_entities stores for one node under a deny filter: the
\* components that are not denied and whose type the registry knows.
ExtractEntry(n, filter) ==
    {r \in records_of(n) : r.type \notin filter /\ r.type \in AppRegistered}

RECURSIVE extract_entities(_, _, _)
\* DynamicSceneBuilder::extract_entities: nodes already extracted are skipped.
extract_entities(scene, ents, filter) ==
    IF ents = <<>> THEN scene
    ELSE LET e == Head(ents)
             next == IF e \in DOMAIN scene THEN scene
                     ELSE [n \in DOMAIN scene \cup {e} |->
                              IF n = e THEN ExtractEntry(e, filter) ELSE scene[n]]
         IN extract_entities(next, Tail(ents), filter)

\* The deny list of the first extraction.
BranchDeny == {"GlobalTransform"}

\* What the second deny call adds to the filter.
LeafDenyAdded == {"Children"}

\* scene_builder.deny::<GlobalTransform>().extract_entities(entities)
ExtractBranches ==
    /\ pc = "extract_entities"
    /\ deny' = deny \cup BranchDeny
    /\ extracted_scene' = extract_entities(EmptyScene, entities, deny')
    /\ pc' = "extract_leaf_nodes"
    /\ UNCHANGED <<parentOf, leaf, root, entities, leaf_nodes,
                   entities_to_check, visits, serialized_prefab>>
    /\ UNCHANGED codecVars

\* scene_builder.deny::<Children>().extract_entities(leaf_nodes); build()
ExtractLeaves ==
    /\ pc = "extract_leaf_nodes"
    /\ deny' = deny \cup LeafDenyAdded
    /\ extracted_scene' = extract_entities(extracted_scene, leaf_nodes, deny')
    /\ pc' = "done"
    /\ UNCHANGED <<parentOf, leaf, root, entities, leaf_nodes,
                   entities_to_check, visits, serialized_prefab>>
    /\ UNCHANGED codecVars

\* The types of the components of the built scene.
SceneTypes == UNION {{r.type : r \in extracted_scene[n]} : n \in DOMAIN extracted_scene}

\* Prefab { name: "Test", scene } is written as pretty RON through
\* PrefabSerializer and logged; unwrap() panics on a serializer error, which
\* a component of a type that is not registered gives.
SerializePrefab ==
    /\ pc = "done"
    /\ IF SceneTypes \subseteq AppRegistered
       THEN /\ serialized_prefab' =
                  <<[name |-> "Test",
                     scene |-> [n \in DOMAIN extracted_scene |->
                                  {r.type : r \in extracted_scene[n]}]]>>
            /\ pc' = "logged"
       ELSE /\ pc' = "panicked"
            /\ UNCHANGED serialized_prefab
    /\ UNCHANGED <<parentOf, leaf, root, entities, leaf_nodes,
                   entities_to_check, visits, deny, extracted_scene>>
    /\ UNCHANGED codecVars

WalkNext ==
    \/ WalkStart \/ WalkStep \/ WalkEnd
    \/ ExtractBranches \/ ExtractLeaves \/ SerializePrefab

(* ------------------------------------------------------- the Prefab codec *)

\* Number of entities of the scenes the codec is run on.
MaxEnts == 1

\* The component types of the scenes the codec is run on.
CodecTypes == {"Transform", "TestComponent"}

\* struct Prefab { name, scene }: the names of the Prefabs.
Names == {"Test", "Steve"}

\* The components of one DynamicEntity, in order, each type at most once.
CompSeqs ==
    {<<>>} \cup {<<t>> : t \in CodecTypes}
    \cup {c \in {<<t, u>> : t, u \in CodecTypes} : c[1] # c[2]}

\* DynamicScene::entities: entity i of the Vec has id i.
EntityVecs ==
    UNION {[1..k -> CompSeqs] : k \in 0..MaxEnts}

DynamicEntities(v) == [i \in 1..Len(v) |-> [entity |-> i, components |-> v[i]]]

\* The Prefabs: DynamicScene { resources: empty, entities }.
Prefabs ==
    {[name |-> n, scene |-> [resources |-> <<>>, entities |-> DynamicEntities(v)]] :
        n \in Names, v \in EntityVecs}

\* The serde data formats the generic serializer and deserializer are used
\* with: RON, the format of the program, and a format without field names.
Formats == {"ron", "positional"}

\* A string value of a document.
StrVal(n) == [kind |-> "str", str |-> n, map |-> <<>>]

\* A map value of a document: entity id -> the type names of its components.
MapVal(m) == [kind |-> "map", str |-> "", map |-> m]

\* EntitiesSerializer names every entity by its id and every component by
\* its type name.
EntitiesToMap(ents) ==
    [i \in 1..Len(ents) |-> [key |-> ents[i].entity, types |-> ents[i].components]]

\* SceneEntitiesDeserializer builds a DynamicEntity of every map entry.
MapToEntities(m) ==
    [i \in 1..Len(m) |-> [entity |-> m[i].key, components |-> m[i].types]]

RECURSIVE Flatten(_)
Flatten(ss) == IF ss = <<>> THEN <<>> ELSE Head(ss) \o Flatten(Tail(ss))

\* The component types of a map value in the order they are looked up.
MapTypes(m) == Flatten([i \in 1..Len(m) |-> m[i].types])

\* The fields a document may hold.
Items ==
    {[key |-> "name", val |-> StrVal(n)] : n \in Names}
    \cup {[key |-> "scene", val |-> MapVal(EntitiesToMap(DynamicEntities(v)))] :
             v \in EntityVecs}

\* The documents: the format they are written in, the position of a syntax
\* error (0: well-formed text) and up to two fields.
Docs ==
    [format : Formats, syntax : {0, 1},
     items : {<<>>} \cup {<<a>> : a \in Items} \cup {<<a, b>> : a, b \in Items}]

\* Bytes that are no UTF-8 text.
InvalidUtf8 == [format |-> "ron", syntax |-> -1, items |-> <<>>]

Ok(v) == <<[ok |-> TRUE, value |-> <<v>>, code |-> "", position |-> 0, path |-> ""]>>

Err(code, position) ==
    <<[ok |-> FALSE, value |-> <<>>, code |-> code, position |-> position, path |-> ""]>>

(* ---- PrefabSerializer::serialize, driven by a serde serializer          *)

\* The types encode looks up, in order: one lookup per component.
EncodeLookups == IF prefab = <<>> THEN <<>>
                 ELSE MapTypes(EntitiesToMap(prefab[1].scene.entities))

\* The document of a Prefab: the field name, then the field scene.
PrefabDoc(p, format) ==
    [format |-> format, syntax |-> 0,
     items |-> <<[key |-> "name", val |-> StrVal(p.name)],
                 [key |-> "scene", val |-> MapVal(EntitiesToMap(p.scene.entities))]>>]

\* serialize_struct("Prefab", 2) and the field name.
EncodeBegin ==
    /\ cpc = "idle"
    /\ \E p \in Prefabs, f \in Formats :
          /\ prefab' = <<p>>
          /\ doc' = <<[format |-> f, syntax |-> 0,
                       items |-> <<[key |-> "name", val |-> StrVal(p.name)]>>]>>
    /\ cpc' = "encode"
    /\ next_rec' = 1
    /\ UNCHANGED <<registered, readers, first_seen, last_seen, result, load_path, attempts, assets>>
    /\ UNCHANGED walkVars

\* The field scene, one component: EntitiesSerializer is handed the
\* TypeRegistryArc and takes its read lock for the lookup of this component
\* alone; a type that is not registered fails the whole call.
EncodeRecord ==
    /\ cpc = "encode"
    /\ next_rec <= Len(EncodeLookups)
    /\ first_seen' = IF first_seen = <<>> THEN <<registered>> ELSE first_seen
    /\ last_seen' = <<registered>>
    /\ IF EncodeLookups[next_rec] \in registered
       THEN /\ next_rec' = next_rec + 1
            /\ UNCHANGED <<cpc, result, doc>>
       ELSE /\ cpc' = "encode_done"
            /\ result' = Err("unregistered type", next_rec)
            /\ doc' = <<>>
            /\ UNCHANGED next_rec
    /\ UNCHANGED <<registered, readers, prefab, load_path, attempts, assets>>
    /\ UNCHANGED walkVars

\* state.end(): the document is complete.
EncodeEnd ==
    /\ cpc = "encode"
    /\ next_rec > Len(EncodeLookups)
    /\ doc' = <<PrefabDoc(prefab[1], doc[1].format)>>
    /\ result' = Ok(doc'[1])
    /\ cpc' = "encode_done"
    /\ UNCHANGED <<registered, readers, prefab, next_rec, first_seen, last_seen, load_path, attempts, assets>>
    /\ UNCHANGED walkVars

(* ---- PrefabDeserializer::deserialize and PrefabVisitor                  *)

\* The Visitor method the format's deserialize_struct calls: RON hands a
\* struct to visit_map, a format without field names to visit_seq.
StructVisit(format) == IF format = "ron" THEN "visit_map" ELSE "visit_seq"

\* SceneEntitiesDeserializer on a sequence element: a map all of whose
\* component types the registry knows.
SceneOk(val, reg) ==
    /\ val.kind = "map"
    /\ \A i \in 1..Len(MapTypes(val.map)) : MapTypes(val.map)[i] \in reg

\* Mutant of visit_seq: a missing scene element gives an empty scene.
visit_seq_lenient(items, reg) ==
    IF items = <<>> THEN Err("missing field Name", 1)
    ELSE IF items[1].val.kind # "str" THEN Err("invalid type", 1)
    ELSE IF Len(items) < 2
         THEN Ok([name |-> items[1].val.str,
                  scene |-> [resources |-> <<>>, entities |-> <<>>]])
    ELSE IF ~SceneOk(items[2].val, reg) THEN Err("invalid scene", 2)
    ELSE Ok([name |-> items[1].val.str,
             scene |-> [resources |-> <<>>,
                        entities |-> MapToEntities(items[2].val.map)]])

\* PrefabVisitor::visit_seq: the first element is the name, the second the
\* entities; each ? returns the error at once.
visit_seq(items, reg) ==
    IF items = <<>> THEN Err("missing field Name", 1)
    ELSE IF items[1].val.kind # "str" THEN Err("invalid type", 1)
    ELSE IF Len(items) < 2 THEN Err("missing field Scene", 2)
    ELSE IF ~SceneOk(items[2].val, reg) THEN Err("invalid scene", 2)
    ELSE Ok([name |-> items[1].val.str,
             scene |-> [resources |-> <<>>,
                        entities |-> MapToEntities(items[2].val.map)]])

\* PrefabVisitor defines no visit_map: the default of serde refuses the map.
visit_map(items, reg) == Err("invalid type: map, expected Prefab Struct", 1)

\* deserializer.deserialize_struct("Prefab", &["name", "scene"], PrefabVisitor)
deserialize_struct(d, reg) ==
    IF d.syntax # 0 THEN Err("syntax", d.syntax)
    ELSE IF StructVisit(d.format) = "visit_map" THEN visit_map(d.items, reg)
    ELSE visit_seq(d.items, reg)

\* The types decode looks up, in order: those of the scene element, when
\* visit_seq gets as far as the scene.
DecodeLookups ==
    IF /\ doc # <<>>
       /\ doc[1].syntax = 0
       /\ StructVisit(doc[1].format) = "visit_seq"
       /\ Len(doc[1].items) >= 2
       /\ doc[1].items[1].val.kind = "str"
       /\ doc[1].items[2].val.kind = "map"
    THEN MapTypes(doc[1].items[2].val.map)
    ELSE <<>>

\* The latest lookup of the decode found its type not registered.
LastLookupFailed ==
    IF next_rec = 1 THEN FALSE ELSE DecodeLookups[next_rec - 1] \notin registered

\* let type_registry = self.type_registry.internal.read();
DecodeLock ==
    /\ readers' = readers + 1
    /\ cpc' = "decode"
    /\ next_rec' = 1
    /\ first_seen' = <<>>
    /\ last_seen' = <<>>
    /\ result' = <<>>
    /\ UNCHANGED <<registered, load_path, attempts, assets>>

\* deserialize is called on a document.
DecodeBegin ==
    /\ cpc = "idle"
    /\ \E d \in Docs : doc' = <<d>>
    /\ prefab' = <<>>
    /\ DecodeLock
    /\ UNCHANGED walkVars

\* deserialize is called on the document an encode has written.
DecodeEncoded ==
    /\ cpc = "encode_done"
    /\ result # <<>> /\ result[1].ok
    /\ UNCHANGED <<doc, prefab>>
    /\ DecodeLock
    /\ UNCHANGED walkVars

\* One registry lookup of the scene's deserializer, under the guard.
DecodeRecord ==
    /\ cpc = "decode"
    /\ next_rec <= Len(DecodeLookups)
    /\ ~LastLookupFailed
    /\ first_seen' = IF first_seen = <<>> THEN <<registered>> ELSE first_seen
    /\ last_seen' = <<registered>>
    /\ next_rec' = next_rec + 1
    /\ UNCHANGED <<registered, readers, cpc, prefab, doc, result, load_path, attempts, assets>>
    /\ UNCHANGED walkVars

\* deserialize_struct returns; Ok(prefab) or the error; the guard is dropped.
DecodeEnd ==
    /\ cpc = "decode"
    /\ IF LastLookupFailed THEN TRUE ELSE next_rec > Len(DecodeLookups)
    /\ result' = deserialize_struct(doc[1], registered)
    /\ readers' = readers - 1
    /\ cpc' = "decode_done"
    /\ UNCHANGED <<registered, prefab, doc, next_rec, first_seen, last_seen, load_path, attempts, assets>>
    /\ UNCHANGED walkVars

(* ---- the registry's writer                                              *)

\* A type is registered: the write lock is taken when no guard is held.
RegisterType ==
    /\ readers = 0
    /\ \E t \in CodecTypes \ registered : registered' = registered \cup {t}
    /\ UNCHANGED <<readers, cpc, prefab, doc, next_rec, first_seen, last_seen,
                   result, load_path, attempts, assets>>
    /\ UNCHANGED walkVars

(* ---- PrefabLoader::load                                              *)

\* PrefabLoader derives Default: its type_registry is a registry of its
\* own, in which no component type is registered.
LoaderRegistered == {}

\* The paths of the files handed to the loader.
Paths == {"a.prefab", "b.prefab"}

\* What the loader is handed: RON text, or bytes that are no text.
LoaderBytes == {d \in Docs : d.format = "ron"} \cup {InvalidUtf8}

\* ron::de::Deserializer::from_bytes(bytes)?
from_bytes_ok(bytes) == bytes.syntax >= 0

\* Mutant of LoadError: the message leaves the file path out.
LoadErrorNoPath(e, path) == e

\* map_err: "{code} at {path}:{position}" of the spanned error.
LoadError(e, path) == <<[e[1] EXCEPT !.path = path]>>

\* load_context.set_default_asset(LoadedAsset::new(prefab)) is reached
\* only past both ?.
LoadedAssets(bytes) ==
    IF ~from_bytes_ok(bytes) THEN <<>>
    ELSE LET r == deserialize_struct(bytes, LoaderRegistered)
         IN IF r[1].ok THEN r[1].value ELSE <<>>

\* The Result load returns.
LoadResult(bytes, path) ==
    IF ~from_bytes_ok(bytes) THEN Err("utf8", 0)
    ELSE LET r == deserialize_struct(bytes, LoaderRegistered)
         IN IF r[1].ok THEN Ok("unit") ELSE LoadError(r, path)

\* One load request, run to its end.
Load ==
    /\ cpc = "idle"
    /\ \E bytes \in LoaderBytes, path \in Paths :
          /\ doc' = <<bytes>>
          /\ load_path' = path
          /\ result' = LoadResult(bytes, path)
          /\ assets' = assets \o LoadedAssets(bytes)
          /\ attempts' = IF from_bytes_ok(bytes) THEN 1 ELSE 0
    /\ cpc' = "load_done"
    /\ UNCHANGED <<registered, readers, prefab, next_rec, first_seen, last_seen>>
    /\ UNCHANGED walkVars

(* ------------------------------------------------------ specifications *)

vars == <<walkVars, codecVars>>

\* No codec operation is under way.
CodecIdle ==
    /\ registered = AppRegistered
    /\ readers = 0
    /\ cpc = "idle"
    /\ prefab = <<>>
    /\ doc = <<>>
    /\ next_rec = 1
    /\ first_seen = <<>>
    /\ last_seen = <<>>
    /\ result = <<>>
    /\ load_path = ""
    /\ attempts = 0
    /\ assets = <<>>

\* serialize_world_system is not run.
WalkParked ==
    /\ parentOf = [n \in Nodes |-> NoNode]
    /\ leaf = {}
    /\ root = 1
    /\ pc = "parked"
    /\ entities = <<>>
    /\ leaf_nodes = <<>>
    /\ entities_to_check = <<>>
    /\ visits = 0
    /\ deny = {}
    /\ extracted_scene = EmptyScene
    /\ serialized_prefab = <<>>

Init == WalkInit /\ CodecIdle

Next == WalkNext

Spec == Init /\ [][Next]_vars

\* serialize_world_system runs as an exclusive system to completion: a step
\* that can be taken is eventually taken.
FairSpec == Init /\ [][Next]_vars /\ WF_vars(Next)

CodecInit == WalkParked /\ CodecIdle

CodecNext ==
    \/ EncodeBegin \/ EncodeRecord \/ EncodeEnd
    \/ DecodeBegin \/ DecodeEncoded \/ DecodeRecord \/ DecodeEnd
    \/ RegisterType
    \/ Load

\* The codec and the loader, with a writer of the registry beside them.
CodecSpec == CodecInit /\ [][CodecNext]_vars

(* ------------------------------------------------ claims about the codec *)

\* C5 (round trip): decoding the document that encode wrote for a Prefab
\* gives a Prefab with the same name and the same entities.
C5_RoundTrip ==
    (cpc = "decode_done" /\ prefab # <<>>) =>
        /\ result[1].ok
        /\ result[1].value[1].name = prefab[1].name
        /\ result[1].value[1].scene.entities = prefab[1].scene.entities

\* The document lacks a field, or its fields are not name then scene.
MissingOrMisordered(d) ==
    \/ Len(d.items) < 2
    \/ d.items[1].key # "name"
    \/ d.items[2].key # "scene"

\* C6 (decode fails closed): a document that lacks a field or has its two
\* fields out of order decodes to an error, an error carries no Prefab, and
\* a Prefab that is returned has the first field as its name and the second
\* as its scene.
C6_DecodeFailsClosed ==
    cpc = "decode_done" =>
        /\ MissingOrMisordered(doc[1]) => ~result[1].ok
        /\ ~result[1].ok => result[1].value = <<>>
        /\ result[1].ok =>
              /\ result[1].value[1].name = doc[1].items[1].val.str
              /\ result[1].value[1].scene.entities =
                     MapToEntities(doc[1].items[2].val.map)

\* visit_seq has read the name of a document that holds no scene, and the
\* decode has returned an error.
C6_Witness ==
    /\ cpc = "decode_done"
    /\ StructVisit(doc[1].format) = "visit_seq"
    /\ doc[1].syntax = 0
    /\ Len(doc[1].items) = 1
    /\ doc[1].items[1].key = "name"
    /\ ~result[1].ok
    /\ result[1].value = <<>>

\* C7 (registry read lock): no encode and no decode observes a mutation of
\* the registry between its first and its last registry lookup (the read
\* lock being held from the start to the end of the call): each lookup
\* finds the registry as the first lookup of the call found it.
C7_NoMutationObserved ==
    (cpc \in {"encode", "encode_done", "decode", "decode_done"} /\ first_seen # <<>>) =>
        last_seen = first_seen

WalkReturned ==
    pc \in {"extract_entities", "extract_leaf_nodes", "done", "logged", "panicked"}

\* The nodes below the root: those that have the root among their ancestors.
BelowRoot == {n \in Nodes : root \in AncestorsOf(parentOf, n)}

\* The ancestors of n that lie strictly below the root.
InnerAncestors(n) ==
    AncestorsOf(parentOf, n) \ ({root} \cup AncestorsOf(parentOf, root))

\* The nodes below the root that the walk is to reach: no ancestor strictly
\* below the root is a leaf.
Reached == {n \in BelowRoot : InnerAncestors(n) \cap leaf = {}}

\* C1 (root-never-leaf): once the walk has started, the root is in entities
\* and not in leaf_nodes, whether or not it carries LeafNode, and when the
\* walk has returned every child of the root is in one of the two lists.
C1_RootNeverLeaf ==
    /\ pc # "start" =>
          /\ root \in Range(entities)
          /\ root \notin Range(leaf_nodes)
    /\ WalkReturned =>
          \A c \in Nodes : parentOf[c] = root =>
              c \in Range(entities) \cup Range(leaf_nodes)

\* A walk has returned for a root that carries LeafNode and has children.
C1_Witness ==
    /\ pc = "done"
    /\ root \in leaf
    /\ children(root) # <<>>
    /\ root \in Range(entities)

\* C2 (walk result): when the walk has returned, entities holds exactly the
\* root and the reached nodes that are not leaves, leaf_nodes exactly the
\* reached nodes that are leaves, and no descendant of a node of leaf_nodes
\* is in either list.
C2_WalkResult ==
    WalkReturned =>
        /\ Range(entities) = {root} \cup (Reached \ leaf)
        /\ Range(leaf_nodes) = Reached \cap leaf
        /\ \A n \in Nodes :
              AncestorsOf(parentOf, n) \cap Range(leaf_nodes) # {} =>
                  n \notin Range(entities) \cup Range(leaf_nodes)

\* The scenario of the specification: root R with children A (leaf) and B,
\* and B with child C (leaf), gives entities {R, B} and leaf_nodes {A, C}.
C2_Witness ==
    /\ pc = "done"
    /\ \E a, b, c \in Nodes \ {root} :
          /\ a # b /\ b # c /\ a # c
          /\ parentOf[a] = root /\ parentOf[b] = root /\ parentOf[c] = b
          /\ a \in leaf /\ b \notin leaf /\ c \in leaf
          /\ Range(entities) = {root, b}
          /\ Range(leaf_nodes) = {a, c}

\* The records of n whose type is not in the deny list.
AllExcept(n, denied) == {r \in records_of(n) : r.type \notin denied}

\* C3 (extraction policy): in the built scene every node of entities carries
\* all of its live records except GlobalTransform, every node of leaf_nodes
\* all of its live records except GlobalTransform and Children, and no other
\* node is in the scene.
C3_ExtractionPolicy ==
    pc = "done" =>
        /\ DOMAIN extracted_scene = Range(entities) \cup Range(leaf_nodes)
        /\ \A n \in Range(entities) :
              extracted_scene[n] = AllExcept(n, {"GlobalTransform"})
        /\ \A n \in Range(leaf_nodes) :
              extracted_scene[n] = AllExcept(n, {"GlobalTransform", "Children"})

\* C4 (no dangling relation): every node a record kept in the built scene
\* refers to is itself in the scene.
C4_NoDanglingRelation ==
    pc = "done" =>
        \A n \in DOMAIN extracted_scene :
            \A r \in extracted_scene[n] : r.refs \subseteq DOMAIN extracted_scene

NoDuplicates(s) == Cardinality(Range(s)) = Len(s)

\* C9 (walk invariant): entities, leaf_nodes and the worklist are pairwise
\* disjoint and hold no node twice, so each pop takes a node never popped
\* before.
C9_WalkDisjoint ==
    /\ NoDuplicates(entities)
    /\ NoDuplicates(leaf_nodes)
    /\ NoDuplicates(entities_to_check)
    /\ Range(entities) \cap Range(leaf_nodes) = {}
    /\ Range(entities) \cap Range(entities_to_check) = {}
    /\ Range(leaf_nodes) \cap Range(entities_to_check) = {}
    /\ pc # "start" => visits + 1 = Len(entities) + Len(leaf_nodes)

\* The loop is under way with nodes in all three lists.
C9_Witness ==
    /\ pc = "loop"
    /\ Len(entities) >= 2
    /\ leaf_nodes # <<>>
    /\ entities_to_check # <<>>

\* C10 (walk termination): the loop eventually finds its worklist empty and
\* the walk returns.
C10_WalkTerminates == <>WalkReturned

\* The walk has returned after popping a node that is not a leaf and has no
\* Children: it was taken to have zero children.
C10_Witness ==
    /\ WalkReturned
    /\ \E n \in Range(entities) \ {root} : children(n) = <<>>

====
